---- MODULE Spec2Model ----
(***************************************************************************)
(* YelpCamp: the request pipeline of the campground / review application.  *)
(*                                                                         *)
(* The store holds two collections (Campground documents with an ordered   *)
(* list of Review references, and Review documents).  Every request is     *)
(* handled by its own asynchronous flow; a flow runs atomically from one   *)
(* `await` to the next, and the flows of concurrent requests interleave at *)
(* those points.  One action below is one such atomic piece: the store     *)
(* operation the flow was waiting for, followed by the handler's code up   *)
(* to its next `await` (or up to the response).                            *)
(*                                                                         *)
(* The source holds two server programs: the single-file application       *)
(* (every route registered on `app`) and the application assembled from    *)
(* the two routers.  `app` says which of them is the running process.      *)
(***************************************************************************)
EXTENDS Integers, Sequences, FiniteSets, TLC

\* ---------------------------------------------------------------- bounds
MaxCamps == 2          \* Campground identifiers the store hands out
MaxReviews == 2        \* Review identifiers the store hands out
MaxDetails == 2        \* violations one validation can report
NumSlots == 2          \* requests handled concurrently

\* ------------------------------------------------------ program constants
BadRequest == 400
NotFound == 404
InternalError == 500
Found == 302
OK == 200
NoStatus == 0          \* an error object without a statusCode property
Rejected == -1         \* the result of a store operation that failed

\* ------------------------------------------------------------- value sets
CampIds == 1..MaxCamps
ReviewIds == 1..MaxReviews
Slots == 1..NumSlots
NoId == 0              \* "no identifier" (null document, unused parameter)
BadId == -1            \* the path segment "new" taken as :id (no ObjectId)
Titles == {"t1", "t2"}
\* The messages of the violations a schema can report, in the order of its
\* keys (the order validate() reports them in).
FieldMsgs == <<"title is required", "price is required", "location is required">>
Apps == {"single", "routers"}
\* The request lines (method, path shape) clients send.
RequestLines ==
    { <<"GET", "/">>, <<"POST", "/">>,
      <<"GET", "/campgrounds">>, <<"POST", "/campgrounds">>,
      <<"PUT", "/campgrounds">>,
      <<"GET", "/campgrounds/new">>, <<"PUT", "/campgrounds/new">>,
      <<"DELETE", "/campgrounds/new">>,
      <<"GET", "/campgrounds/:id">>, <<"PUT", "/campgrounds/:id">>,
      <<"DELETE", "/campgrounds/:id">>,
      <<"GET", "/campgrounds/:id/edit">>,
      <<"GET", "/campgrounds/:id/reviews">>,
      <<"POST", "/campgrounds/:id/reviews">>,
      <<"DELETE", "/campgrounds/:id/reviews/:reviewId">>,
      <<"POST", "/campgrounds/:id/reviews/:reviewId">> }

Range(s) == {s[i] : i \in DOMAIN s}

\* The sub-lists of s: some elements left out, the order kept.
RECURSIVE SubLists(_)
SubLists(s) ==
    IF s = <<>> THEN {<<>>}
    ELSE LET rest == SubLists(Tail(s))
         IN  rest \cup {<<Head(s)>> \o t : t \in rest}

\* What schema.validate(req.body) reports: error.details, a list of
\* violations each carrying a message; the empty list stands for "no error".
DetailLists ==
    {[i \in DOMAIN s |-> [message |-> s[i]]] :
       s \in SubLists(SubSeq(FieldMsgs, 1, MaxDetails))}
InvalidDetails == DetailLists \ {<<>>}

VARIABLES
    app,          \* which server program runs
    campgrounds,  \* Campground collection: id -> [title, reviews]
    reviews,      \* Review collection: the identifiers of its documents
    nextCampId,   \* next fresh Campground identifier
    nextReviewId, \* next fresh Review identifier
    pc,           \* per request slot: where its flow is suspended
    req,          \* per slot: the request (route, parameters, body)
    loc,          \* per slot: the handler's local variables
    resp,         \* per slot: the response sent
    hist          \* per slot: what the flow has done so far

vars == <<app, campgrounds, reviews, nextCampId, nextReviewId,
          pc, req, loc, resp, hist>>
store == <<campgrounds, reviews>>

\* ------------------------------------------------------------ error values
\* An error value: a message and, for an ExpressError, a status code.
ExpressError(message, statusCode) ==
    [message |-> message, statusCode |-> statusCode]
\* Errors raised by the runtime or the store client carry no statusCode.
TypeError == [message |-> <<"TypeError">>, statusCode |-> NoStatus]
CastError == [message |-> <<"CastError">>, statusCode |-> NoStatus]
StoreError == [message |-> <<"StoreError">>, statusCode |-> NoStatus]
VersionError == [message |-> <<"VersionError">>, statusCode |-> NoStatus]
PageNotFound == <<"Page Not Found">>
DefaultMessage == <<"Oh No, Something Went Wrong!">>

\* error.details.map(el => el.message)
Messages(details) == [i \in DOMAIN details |-> details[i].message]

\* Array.prototype.join(','): the elements with a comma between neighbours.
RECURSIVE Join(_)
Join(msgs) ==
    IF Len(msgs) = 0 THEN <<>>
    ELSE IF Len(msgs) = 1 THEN <<msgs[1]>>
    ELSE <<msgs[1], ",">> \o Join(Tail(msgs))

\* A validation middleware that reports only the first violation.
ValidateFirstOnly(details) ==
    IF details # <<>>
    THEN <<ExpressError(<<details[1].message>>, BadRequest)>>
    ELSE <<>>

\* The validation middleware: the error it throws, or <<>> when it calls next().
Validate(details) ==
    IF details # <<>>
    THEN <<ExpressError(Join(Messages(details)), BadRequest)>>
    ELSE <<>>

\* ---------------------------------------------------------------- responses
NoResp == [type |-> "none", status |-> NoStatus, path |-> "", id |-> NoId,
           message |-> <<>>]
Render(view, id) ==
    [type |-> "render", status |-> OK, path |-> view, id |-> id,
     message |-> <<>>]
Redirect(path, id) ==
    [type |-> "redirect", status |-> Found, path |-> path, id |-> id,
     message |-> <<>>]
\* The error-handling middleware: status defaults to 500, an empty message
\* is replaced by the default one, the error view is rendered.
ErrorPage(err) ==
    [type |-> "error",
     status |-> IF err.statusCode = NoStatus THEN InternalError
                ELSE err.statusCode,
     path |-> "error", id |-> NoId,
     message |-> IF err.message = <<>> THEN DefaultMessage ELSE err.message]

\* ------------------------------------------------------------------ routing
\* A matcher that also accepts a path the pattern is only a prefix of.
PathMatchesPrefix(pattern, path) ==
    \/ pattern = "*"
    \/ pattern = path
    \/ pattern = "/campgrounds/:id" /\ path = "/campgrounds/new"
    \/ pattern = "/campgrounds/:id" /\ path = "/campgrounds/:id/reviews"

\* A route pattern matches the path of its own shape; the literal segment
\* "new" is also a value of the :id parameter.
PathMatches(pattern, path) ==
    \/ pattern = "*"
    \/ pattern = path
    \/ pattern = "/campgrounds/:id" /\ path = "/campgrounds/new"

R(method, pattern, handler) ==
    [method |-> method, pattern |-> pattern, handler |-> handler]

\* Routes in registration order.
SingleRoutes ==
    << R("GET", "/", "home"),
       R("GET", "/campgrounds", "index"),
       R("GET", "/campgrounds/new", "new"),
       R("POST", "/campgrounds", "create"),
       R("GET", "/campgrounds/:id", "show"),
       R("GET", "/campgrounds/:id/edit", "edit"),
       R("PUT", "/campgrounds/:id", "update"),
       R("DELETE", "/campgrounds/:id", "delete"),
       R("POST", "/campgrounds/:id/reviews", "createReview"),
       R("DELETE", "/campgrounds/:id/reviews/:reviewId", "deleteReview"),
       R("ALL", "*", "catchAll") >>

RouterRoutes ==
    << R("GET", "/campgrounds", "index"),
       R("GET", "/campgrounds/new", "new"),
       R("POST", "/campgrounds", "create"),
       R("GET", "/campgrounds/:id", "show"),
       R("GET", "/campgrounds/:id/edit", "edit"),
       R("PUT", "/campgrounds/:id", "update"),
       R("DELETE", "/campgrounds/:id", "delete"),
       R("POST", "/campgrounds/:id/reviews", "createReview"),
       R("DELETE", "/campgrounds/:id/reviews/:reviewId", "deleteReview"),
       R("GET", "/", "home"),
       R("ALL", "*", "catchAll") >>

Routes(a) == IF a = "single" THEN SingleRoutes ELSE RouterRoutes

RouteMatches(r, method, path) ==
    (r.method = "ALL" \/ r.method = method) /\ PathMatches(r.pattern, path)

\* The handler of the first registered route that matches.
Match(a, method, path) ==
    LET rs == Routes(a)
        i == CHOOSE k \in DOMAIN rs :
                 /\ RouteMatches(rs[k], method, path)
                 /\ \A j \in 1..(k - 1) : ~RouteMatches(rs[j], method, path)
    IN  rs[i].handler

Handlers == {"home", "index", "new", "create", "show", "edit", "update",
             "delete", "createReview", "deleteReview", "catchAll"}

\* The request lines (method, path) each handler receives.
LinesOf ==
    [a \in Apps, h \in Handlers |->
        {line \in RequestLines : Match(a, line[1], line[2]) = h}]

\* Whether the handler is passed through catchAsync where it is registered.
Wrapped(a, handler) ==
    CASE handler \in {"home", "new", "catchAll"} -> FALSE
      [] handler = "index" -> a = "routers"
      [] OTHER -> TRUE

\* Whether req.flash exists: neither program installs a flash middleware.
HasFlash(a) == FALSE

\* Whether the handler calls req.flash before it responds.
CallsFlash(a, handler) == a = "routers" /\ handler = "createReview"

\* ----------------------------------------------------------- store client
\* A document as a handler holds it: <<>> is null.
Doc(c) == <<[id |-> c, reviews |-> campgrounds[c].reviews]>>
FindById(id) == IF id \in DOMAIN campgrounds THEN Doc(id) ELSE <<>>

\* A save that leaves the new document alone in the collection.
InsertAlone(coll, id, doc) == [c \in {id} |-> doc]

\* new Model(data).save(): the collection with the document added.
Insert(coll, id, doc) ==
    [c \in DOMAIN coll \cup {id} |-> IF c = id THEN doc ELSE coll[c]]

\* findByIdAndUpdate(id, {...fields}): the fields merged into the document.
UpdateTitle(coll, id, t) ==
    IF id \in DOMAIN coll THEN [coll EXCEPT ![id].title = t] ELSE coll

\* A delete that removes nothing.
RemoveNothing(coll, id) == coll

\* findByIdAndDelete(id): the collection without the document.
Remove(coll, id) == [c \in DOMAIN coll \ {id} |-> coll[c]]

\* A $pull that leaves the array as it is.
PullNothing(list, r) == list

\* $pull: every occurrence of the value leaves the array.
Pull(list, r) == SelectSeq(list, LAMBDA x : x # r)

\* A save that writes back the array as the handler holds it.
PushSaveHeld(stored, held, item) == Append(held, item)

\* doc.save() after reviews.push(item): the change is sent as a $push of the
\* pushed item onto the stored array.
PushSave(stored, held, item) == Append(stored, item)

\* findByIdAndUpdate(id, {$pull: {reviews: r}})
PullUpdate(coll, id, r) ==
    IF id \in DOMAIN coll
    THEN [coll EXCEPT ![id].reviews = Pull(@, r)]
    ELSE coll

\* A handler that pushes onto a campground it has not found.
CanPushAlways(doc) == TRUE

\* campground.reviews of a null campground throws.
CanPush(doc) == doc # <<>>

\* The Campground model's hook that runs after findByIdAndDelete has removed
\* a document: the Review documents the removed Campground listed are
\* deleted.
PostDeleteHook(revs, doc) == revs \ Range(doc.reviews)

\* catchAsync(fn): the errors the wrapper hands to next() when fn's promise
\* rejects; an unwrapped async handler hands over nothing.
CatchAsync(wrapped, err) == IF wrapped THEN <<err>> ELSE <<>>

\* ----------------------------------------------------------- bookkeeping
\* A request's arrival is joined with the first store operation of its
\* handler: nothing another flow can observe happens between the two.
NoLoc == [doc |-> <<>>, newId |-> NoId]
NoHist == [ops |-> <<>>, presented |-> 0, responses |-> 0, failed |-> FALSE]
NoReq == [handler |-> "none", method |-> "GET", path |-> "/", id |-> NoId,
          reviewId |-> NoId, details |-> <<>>]
\* A request as the pipeline keeps it: the route it matched, its path
\* parameters and what validation reports about its body.
Request(h, line, id, rid, details) ==
    [handler |-> h, method |-> line[1], path |-> line[2], id |-> id,
     reviewId |-> rid, details |-> details]

\* The flow's record of a store operation: its name, the identifier it
\* addressed or created, and how many documents (for $pull: array elements)
\* it found or changed; Rejected when the store did not carry it out.
Op(h, name, arg, n) ==
    [h EXCEPT !.ops = Append(@, [op |-> name, arg |-> arg, n |-> n])]
Fail(h, name, arg) ==
    [h EXCEPT !.ops = Append(@, [op |-> name, arg |-> arg, n |-> Rejected]),
              !.failed = TRUE]
Sent(h) == [h EXCEPT !.responses = @ + 1]
Presented(h) == [h EXCEPT !.presented = @ + 1, !.responses = @ + 1]

\* A finished request leaves its slot before the next request is taken up.
Finished(p) == pc[p] \in {"done", "hung"}
\* A new request takes the lowest idle slot.
Arrives(p) ==
    /\ pc[p] = "idle"
    /\ \A q \in Slots : ~Finished(q) /\ (q < p => pc[q] # "idle")

\* The id a path of the given shape carries.
IdsOf(path) == IF path = "/campgrounds/new" THEN {BadId} ELSE CampIds

\* Slot p as a step leaves it; r is the request record when the step is the
\* request's arrival.
Slot(p, r, at, l, rs, h) ==
    /\ pc' = [pc EXCEPT ![p] = at]
    /\ req' = [req EXCEPT ![p] = IF r # <<>> THEN r[1] ELSE @]
    /\ loc' = [loc EXCEPT ![p] = l]
    /\ resp' = [resp EXCEPT ![p] = rs]
    /\ hist' = [hist EXCEPT ![p] = h]

\* The flow of slot p is suspended at `at`.
Goto(p, r, at, l, h) == Slot(p, r, at, l, NoResp, h)

\* The handler sends response rs (its locals are gone when it returns).
Respond(p, r, rs, h) == Slot(p, r, "done", NoLoc, rs, Sent(h))

\* next(err), or a throw inside a synchronous middleware: the error-handling
\* middleware renders the error.
ErrorHandler(p, r, err, h) ==
    Slot(p, r, "done", NoLoc, ErrorPage(err), Presented(h))

\* The promise of handler `handler` rejects with err.
Reject(p, r, handler, err, h) ==
    LET passed == CatchAsync(Wrapped(app, handler), err)
    IN  IF passed # <<>>
        THEN ErrorHandler(p, r, passed[1], h)
        ELSE Slot(p, r, "hung", NoLoc, NoResp, h)

\* --------------------------------------------------------------------- Init
Init ==
    /\ app \in Apps
    /\ campgrounds = <<>>
    /\ reviews = {}
    /\ nextCampId = 1
    /\ nextReviewId = 1
    /\ pc = [p \in Slots |-> "idle"]
    /\ req = [p \in Slots |-> NoReq]
    /\ loc = [p \in Slots |-> NoLoc]
    /\ resp = [p \in Slots |-> NoResp]
    /\ hist = [p \in Slots |-> NoHist]

\* ----------------------------------------------------------------- actions
\* In each store step `ok` says whether the store carried the operation out;
\* when it did not, the awaited promise rejects.

\* GET /
Home(p) ==
    /\ Arrives(p)
    /\ \E line \in LinesOf[app, "home"] :
         LET r == Request("home", line, NoId, NoId, <<>>)
         IN  Respond(p, <<r>>, Render("home", NoId), NoHist)
    /\ UNCHANGED <<app, store, nextCampId, nextReviewId>>

\* GET /campgrounds/new
New(p) ==
    /\ Arrives(p)
    /\ \E line \in LinesOf[app, "new"] :
         LET r == Request("new", line, NoId, NoId, <<>>)
         IN  Respond(p, <<r>>, Render("campgrounds/new", NoId), NoHist)
    /\ UNCHANGED <<app, store, nextCampId, nextReviewId>>

\* app.all('*'): no route matched
CatchAll(p) ==
    /\ Arrives(p)
    /\ \E line \in LinesOf[app, "catchAll"] :
         LET r == Request("catchAll", line, NoId, NoId, <<>>)
         IN  ErrorHandler(p, <<r>>, ExpressError(PageNotFound, NotFound),
                          NoHist)
    /\ UNCHANGED <<app, store, nextCampId, nextReviewId>>

\* GET /campgrounds: Campground.find({}), then the index view
Index(p) ==
    /\ Arrives(p)
    /\ \E line \in LinesOf[app, "index"], ok \in BOOLEAN :
         LET r == Request("index", line, NoId, NoId, <<>>)
             n == Cardinality(DOMAIN campgrounds)
         IN  IF ok
             THEN Respond(p, <<r>>, Render("campgrounds/index", NoId),
                          Op(NoHist, "find", NoId, n))
             ELSE Reject(p, <<r>>, "index", StoreError,
                         Fail(NoHist, "find", NoId))
    /\ UNCHANGED <<app, store, nextCampId, nextReviewId>>

\* GET /campgrounds/:id: Campground.findById(id).populate('reviews'), then
\* the show view
Show(p) ==
    /\ Arrives(p)
    /\ \E line \in LinesOf[app, "show"], ok \in BOOLEAN :
       \E id \in IdsOf(line[2]) :
         LET r == Request("show", line, id, NoId, <<>>)
             doc == FindById(id)
         IN  IF ok
             THEN Respond(p, <<r>>,
                          Render("campgrounds/show",
                                 IF doc = <<>> THEN NoId ELSE doc[1].id),
                          Op(NoHist, "findById", id, Len(doc)))
             ELSE Reject(p, <<r>>, "show", StoreError,
                         Fail(NoHist, "findById", id))
    /\ UNCHANGED <<app, store, nextCampId, nextReviewId>>

\* GET /campgrounds/:id/edit: Campground.findById(id), then the edit view
Edit(p) ==
    /\ Arrives(p)
    /\ \E line \in LinesOf[app, "edit"], ok \in BOOLEAN :
       \E id \in IdsOf(line[2]) :
         LET r == Request("edit", line, id, NoId, <<>>)
             doc == FindById(id)
         IN  IF ok
             THEN Respond(p, <<r>>,
                          Render("campgrounds/edit",
                                 IF doc = <<>> THEN NoId ELSE doc[1].id),
                          Op(NoHist, "findById", id, Len(doc)))
             ELSE Reject(p, <<r>>, "edit", StoreError,
                         Fail(NoHist, "findById", id))
    /\ UNCHANGED <<app, store, nextCampId, nextReviewId>>

\* POST /campgrounds: validateCampground; new Campground(...), which draws
\* the fresh identifier; campground.save(); the redirect to the new campground
Create(p) ==
    /\ Arrives(p)
    /\ \E line \in LinesOf[app, "create"], details \in DetailLists :
         LET thrown == Validate(details)
             r == Request("create", line, NoId, NoId, details)
             id == nextCampId
         IN  IF thrown # <<>>
             THEN /\ ErrorHandler(p, <<r>>, thrown[1], NoHist)
                  /\ UNCHANGED <<campgrounds, nextCampId>>
             ELSE \E title \in Titles, ok \in BOOLEAN :
                  /\ nextCampId <= MaxCamps
                  /\ nextCampId' = nextCampId + 1
                  /\ IF ok
                     THEN /\ campgrounds' =
                               Insert(campgrounds, id,
                                      [title |-> title, reviews |-> <<>>])
                          /\ Respond(p, <<r>>, Redirect("/campgrounds", id),
                                     Op(NoHist, "save", id, 1))
                     ELSE /\ Reject(p, <<r>>, "create", StoreError,
                                    Fail(NoHist, "save", id))
                          /\ UNCHANGED campgrounds
    /\ UNCHANGED <<app, reviews, nextReviewId>>

\* PUT /campgrounds/:id: validateCampground; Campground.findByIdAndUpdate;
\* the redirect built from the returned document
Update(p) ==
    /\ Arrives(p)
    /\ \E line \in LinesOf[app, "update"], details \in DetailLists :
       \E id \in IdsOf(line[2]) :
         LET thrown == Validate(details)
             r == Request("update", line, id, NoId, details)
             doc == FindById(id)
             h == Op(NoHist, "findByIdAndUpdate", id, Len(doc))
         IN  IF thrown # <<>>
             THEN /\ ErrorHandler(p, <<r>>, thrown[1], NoHist)
                  /\ UNCHANGED campgrounds
             ELSE \/ /\ id = BadId
                     /\ Reject(p, <<r>>, "update", CastError,
                               Fail(NoHist, "findByIdAndUpdate", id))
                     /\ UNCHANGED campgrounds
                  \/ /\ id # BadId
                     /\ Reject(p, <<r>>, "update", StoreError,
                               Fail(NoHist, "findByIdAndUpdate", id))
                     /\ UNCHANGED campgrounds
                  \/ /\ id # BadId
                     /\ \E title \in Titles :
                          campgrounds' = UpdateTitle(campgrounds, id, title)
                     /\ IF doc = <<>>
                        THEN Reject(p, <<r>>, "update", TypeError, h)
                        ELSE Respond(p, <<r>>,
                                     Redirect("/campgrounds", doc[1].id), h)
    /\ UNCHANGED <<app, reviews, nextCampId, nextReviewId>>

\* DELETE /campgrounds/:id: Campground.findByIdAndDelete(id) takes the
\* document out of the collection; its promise resolves once the model's
\* hook has run.
Delete(p) ==
    /\ Arrives(p)
    /\ \E line \in LinesOf[app, "delete"] :
       \E id \in IdsOf(line[2]) :
         LET r == Request("delete", line, id, NoId, <<>>)
             doc == FindById(id)
             h == Op(NoHist, "findByIdAndDelete", id, Len(doc))
         IN  \/ /\ id = BadId
                /\ Reject(p, <<r>>, "delete", CastError,
                          Fail(NoHist, "findByIdAndDelete", id))
                /\ UNCHANGED campgrounds
             \/ /\ id # BadId
                /\ Reject(p, <<r>>, "delete", StoreError,
                          Fail(NoHist, "findByIdAndDelete", id))
                /\ UNCHANGED campgrounds
             \/ /\ id # BadId
                /\ campgrounds' = Remove(campgrounds, id)
                /\ IF doc = <<>>
                   THEN Respond(p, <<r>>, Redirect("/campgrounds", NoId), h)
                   ELSE Goto(p, <<r>>, "deleteMany",
                             [NoLoc EXCEPT !.doc = doc], h)
    /\ UNCHANGED <<app, reviews, nextCampId, nextReviewId>>

\* The hook's removal of the deleted campground's reviews, then the
\* redirect to the index
DeleteHook(p) ==
    /\ pc[p] = "deleteMany"
    /\ \E ok \in BOOLEAN :
         LET after == PostDeleteHook(reviews, loc[p].doc[1])
             n == Cardinality(reviews \ after)
         IN  IF ok
             THEN /\ reviews' = after
                  /\ Respond(p, <<>>, Redirect("/campgrounds", NoId),
                             Op(hist[p], "deleteMany", NoId, n))
             ELSE /\ Reject(p, <<>>, "delete", StoreError,
                            Fail(hist[p], "deleteMany", NoId))
                  /\ UNCHANGED reviews
    /\ UNCHANGED <<app, campgrounds, nextCampId, nextReviewId>>

\* POST /campgrounds/:id/reviews: validateReview; Campground.findById(id);
\* new Review(...), which draws the fresh identifier;
\* campground.reviews.push(review); review.save() is issued
CreateReview(p) ==
    /\ Arrives(p)
    /\ \E line \in LinesOf[app, "createReview"], details \in DetailLists :
       \E id \in IdsOf(line[2]) :
         LET thrown == Validate(details)
             r == Request("createReview", line, id, NoId, details)
             doc == FindById(id)
             h == Op(NoHist, "findById", id, Len(doc))
         IN  IF thrown # <<>>
             THEN /\ ErrorHandler(p, <<r>>, thrown[1], NoHist)
                  /\ UNCHANGED nextReviewId
             ELSE \/ /\ Reject(p, <<r>>, "createReview", StoreError,
                               Fail(NoHist, "findById", id))
                     /\ UNCHANGED nextReviewId
                  \/ IF ~CanPush(doc)
                     THEN /\ Reject(p, <<r>>, "createReview", TypeError, h)
                          /\ UNCHANGED nextReviewId
                     ELSE /\ nextReviewId <= MaxReviews
                          /\ nextReviewId' = nextReviewId + 1
                          /\ Goto(p, <<r>>, "review.save",
                                  [doc |-> doc, newId |-> nextReviewId], h)
    /\ UNCHANGED <<app, store, nextCampId>>

\* review.save(); campground.save() is issued
ReviewSave(p) ==
    /\ pc[p] = "review.save"
    /\ \E ok \in BOOLEAN :
         IF ok
         THEN /\ reviews' = reviews \cup {loc[p].newId}
              /\ Goto(p, <<>>, "campground.save", loc[p],
                      Op(hist[p], "save", loc[p].newId, 1))
         ELSE /\ Reject(p, <<>>, "createReview", StoreError,
                        Fail(hist[p], "save", loc[p].newId))
              /\ UNCHANGED reviews
    /\ UNCHANGED <<app, campgrounds, nextCampId, nextReviewId>>

\* campground.save(), then (router version) req.flash, then the redirect.
\* The save of a document that has left the collection rejects.
CampSave(p) ==
    /\ pc[p] = "campground.save"
    /\ \E ok \in BOOLEAN :
         LET id == req[p].id
             h == Op(hist[p], "save", id, 1)
         IN  IF ~ok
             THEN /\ Reject(p, <<>>, "createReview", StoreError,
                            Fail(hist[p], "save", id))
                  /\ UNCHANGED campgrounds
             ELSE IF id \notin DOMAIN campgrounds
             THEN /\ Reject(p, <<>>, "createReview", VersionError,
                            Fail(hist[p], "save", id))
                  /\ UNCHANGED campgrounds
             ELSE /\ campgrounds' =
                       [campgrounds EXCEPT ![id].reviews =
                           PushSave(@, loc[p].doc[1].reviews, loc[p].newId)]
                  /\ IF CallsFlash(app, "createReview") /\ ~HasFlash(app)
                     THEN Reject(p, <<>>, "createReview", TypeError, h)
                     ELSE Respond(p, <<>>, Redirect("/campgrounds", id), h)
    /\ UNCHANGED <<app, reviews, nextCampId, nextReviewId>>

\* DELETE /campgrounds/:id/reviews/:reviewId:
\* Campground.findByIdAndUpdate(id, {$pull: {reviews: reviewId}});
\* Review.findByIdAndDelete(reviewId) is issued
DeleteReview(p) ==
    /\ Arrives(p)
    /\ \E line \in LinesOf[app, "deleteReview"], ok \in BOOLEAN :
       \E id \in IdsOf(line[2]), rid \in ReviewIds :
         LET r == Request("deleteReview", line, id, rid, <<>>)
             after == PullUpdate(campgrounds, id, rid)
             n == IF id \in DOMAIN campgrounds
                  THEN Len(campgrounds[id].reviews) - Len(after[id].reviews)
                  ELSE 0
         IN  IF ok
             THEN /\ campgrounds' = after
                  /\ Goto(p, <<r>>, "findByIdAndDelete", NoLoc,
                          Op(NoHist, "findByIdAndUpdate", id, n))
             ELSE /\ Reject(p, <<r>>, "deleteReview", StoreError,
                            Fail(NoHist, "findByIdAndUpdate", id))
                  /\ UNCHANGED campgrounds
    /\ UNCHANGED <<app, reviews, nextCampId, nextReviewId>>

\* Review.findByIdAndDelete(reviewId), then the redirect to the campground
ReviewDelete(p) ==
    /\ pc[p] = "findByIdAndDelete"
    /\ \E ok \in BOOLEAN :
         LET rid == req[p].reviewId
             n == Cardinality(reviews \cap {rid})
         IN  IF ok
             THEN /\ reviews' = reviews \ {rid}
                  /\ Respond(p, <<>>, Redirect("/campgrounds", req[p].id),
                             Op(hist[p], "findByIdAndDelete", rid, n))
             ELSE /\ Reject(p, <<>>, "deleteReview", StoreError,
                            Fail(hist[p], "findByIdAndDelete", rid))
                  /\ UNCHANGED reviews
    /\ UNCHANGED <<app, campgrounds, nextCampId, nextReviewId>>

\* The response has gone out (or the client has given up on a request that
\* never answers): the slot is idle again.
Release(p) ==
    /\ Finished(p)
    /\ Slot(p, <<NoReq>>, "idle", NoLoc, NoResp, NoHist)
    /\ UNCHANGED <<app, store, nextCampId, nextReviewId>>

\* ------------------------------------------------------------ specification
Next ==
    \E p \in Slots :
        \/ Home(p)
        \/ New(p)
        \/ CatchAll(p)
        \/ Index(p)
        \/ Show(p)
        \/ Edit(p)
        \/ Create(p)
        \/ Update(p)
        \/ Delete(p)
        \/ DeleteHook(p)
        \/ CreateReview(p)
        \/ ReviewSave(p)
        \/ CampSave(p)
        \/ DeleteReview(p)
        \/ ReviewDelete(p)
        \/ Release(p)

Spec == Init /\ [][Next]_vars

\* Only review submissions arrive, at a store that already holds the
\* campgrounds (the state after MaxCamps campgrounds were created).
InitReviews ==
    /\ app \in Apps
    /\ campgrounds = [c \in CampIds |-> [title |-> "t1", reviews |-> <<>>]]
    /\ reviews = {}
    /\ nextCampId = MaxCamps + 1
    /\ nextReviewId = 1
    /\ pc = [p \in Slots |-> "idle"]
    /\ req = [p \in Slots |-> NoReq]
    /\ loc = [p \in Slots |-> NoLoc]
    /\ resp = [p \in Slots |-> NoResp]
    /\ hist = [p \in Slots |-> NoHist]

NextReviews ==
    \E p \in Slots :
        \/ CreateReview(p)
        \/ ReviewSave(p)
        \/ CampSave(p)
        \/ Release(p)

SpecReviews == InitReviews /\ [][NextReviews]_vars

\* ================================================================== claims
Listed(c) == Range(campgrounds[c].reviews)
Quiescent == \A p \in Slots : pc[p] \in {"idle", "done"}
Is(p, handler) == pc[p] # "idle" /\ req[p].handler = handler
Redirected(p) == pc[p] = "done" /\ resp[p].type = "redirect"

\* C1: when DELETE /campgrounds/{id} for an existing campground completes,
\* the Campground record is gone and so is every Review record whose
\* identifier was in that campground's review list.
C1_DeleteRemovesReviews ==
    [][\A p \in Slots :
         (pc[p] = "deleteMany" /\ pc'[p] = "done"
            /\ resp'[p].type = "redirect")
         => /\ req[p].id \notin DOMAIN campgrounds'
            /\ \A r \in Range(loc[p].doc[1].reviews) : r \notin reviews']_vars

\* A campground that listed a review has been deleted, and the review with it.
C1_Witness ==
    \E p \in Slots :
        /\ Is(p, "delete") /\ Redirected(p)
        /\ Len(hist[p].ops) = 2
        /\ hist[p].ops[1].n = 1
        /\ hist[p].ops[2].n >= 1

\* C2: whenever every request taken up has completed, every Review
\* identifier in any Campground's review list is the identifier of an
\* existing Review record.
C2_NoDanglingReference ==
    Quiescent => \A c \in DOMAIN campgrounds : Listed(c) \subseteq reviews

\* The message of a validation error: the violation messages in order, with
\* a comma between neighbours.
IsJoined(msg, details) ==
    /\ Len(msg) = 2 * Len(details) - 1
    /\ \A i \in 1..Len(details) : msg[2 * i - 1] = details[i].message
    /\ \A i \in 1..(Len(details) - 1) : msg[2 * i] = ","

ValidatedLines ==
    { <<"POST", "/campgrounds">>, <<"PUT", "/campgrounds/:id">>,
      <<"PUT", "/campgrounds/new">>, <<"POST", "/campgrounds/:id/reviews">> }

\* C3: a request to a validated endpoint whose payload violates the schema
\* is answered by the validation stage with status 400 and the violation
\* messages joined by commas; the next stage is not called, no store
\* operation is executed and both collections are as they were.
C3_InvalidPayloadRejected ==
    [][\A p \in Slots :
         (pc[p] = "idle" /\ pc'[p] # "idle"
            /\ <<req'[p].method, req'[p].path>> \in ValidatedLines
            /\ req'[p].details # <<>>)
         => /\ pc'[p] = "done"
            /\ resp'[p].type = "error"
            /\ resp'[p].status = 400
            /\ IsJoined(resp'[p].message, req'[p].details)
            /\ hist'[p].ops = <<>>
            /\ hist'[p].presented = 1
            /\ hist'[p].responses = 1
            /\ campgrounds' = campgrounds
            /\ reviews' = reviews]_vars

\* An update whose payload has two violations was answered with 400.
C3_Witness ==
    \E p \in Slots :
        /\ Is(p, "update") /\ pc[p] = "done"
        /\ Len(req[p].details) = 2
        /\ resp[p].status = 400
        /\ Len(resp[p].message) = 3

\* C4: a request during which a store operation failed has had its failure
\* handed to the error presenter exactly once and has received exactly one
\* response, the rendered error.
C4_FailurePresentedOnce ==
    \A p \in Slots :
        hist[p].failed
        => /\ pc[p] = "done"
           /\ hist[p].presented = 1
           /\ hist[p].responses = 1
           /\ resp[p].type = "error"

C6_CreateAddsOne ==
    [][\A p \in Slots :
         (pc[p] = "idle" /\ pc'[p] # "idle"
            /\ <<req'[p].method, req'[p].path>> = <<"POST", "/campgrounds">>
            /\ req'[p].details = <<>>
            /\ ~hist'[p].failed)
         => /\ pc'[p] = "done"
            /\ \E n \in CampIds \ DOMAIN campgrounds :
                  /\ DOMAIN campgrounds' = DOMAIN campgrounds \cup {n}
                  /\ resp'[p] = [type |-> "redirect", status |-> 302,
                                 path |-> "/campgrounds", id |-> n,
                                 message |-> <<>>]
            /\ \A c \in DOMAIN campgrounds : campgrounds'[c] = campgrounds[c]
            /\ reviews' = reviews]_vars

\* A second campground has been created next to one that holds a review.
C6_Witness ==
    \E p \in Slots :
        /\ Is(p, "create") /\ Redirected(p)
        /\ resp[p].id \in DOMAIN campgrounds
        /\ \E c \in DOMAIN campgrounds :
              c # resp[p].id /\ campgrounds[c].reviews # <<>>

\* The method and path shapes the application defines a route for.
DefinedLines ==
    { <<"GET", "/">>, <<"GET", "/campgrounds">>,
      <<"GET", "/campgrounds/new">>, <<"POST", "/campgrounds">>,
      <<"GET", "/campgrounds/:id">>, <<"GET", "/campgrounds/:id/edit">>,
      <<"PUT", "/campgrounds/:id">>, <<"DELETE", "/campgrounds/:id">>,
      <<"PUT", "/campgrounds/new">>, <<"DELETE", "/campgrounds/new">>,
      <<"POST", "/campgrounds/:id/reviews">>,
      <<"DELETE", "/campgrounds/:id/reviews/:reviewId">> }

\* C7: a request whose method and path match no defined route is answered
\* by the error presenter with status 404 and the message "Page Not Found",
\* and no store operation is performed for it.
C7_UnmatchedIs404 ==
    \A p \in Slots :
        (pc[p] # "idle" /\ <<req[p].method, req[p].path>> \notin DefinedLines)
        => /\ pc[p] = "done"
           /\ resp[p].type = "error"
           /\ resp[p].status = 404
           /\ resp[p].message = <<"Page Not Found">>
           /\ hist[p].presented = 1
           /\ hist[p].responses = 1
           /\ hist[p].ops = <<>>

\* A GET of a campground's review collection, which no route serves, was
\* answered with 404.
C7_Witness ==
    \E p \in Slots :
        /\ pc[p] = "done"
        /\ <<req[p].method, req[p].path>> = <<"GET", "/campgrounds/:id/reviews">>
        /\ resp[p].status = 404

\* C8: for an existing campground and a valid payload, POST
\* /campgrounds/{id}/reviews adds exactly one new Review record, appends its
\* identifier at the end of that campground's review list (the earlier
\* entries as they were, no other campground changed), and is answered with
\* a redirect to /campgrounds/{id}.
C8_CreateReviewAppendsAndRedirects ==
    [][\A p \in Slots :
         /\ (pc[p] = "review.save" /\ pc'[p] = "campground.save")
            => /\ loc[p].newId \notin reviews
               /\ reviews' = reviews \cup {loc[p].newId}
         /\ (pc[p] = "campground.save" /\ pc'[p] = "done"
               /\ ~hist'[p].failed)
            => LET id == req[p].id
               IN  /\ campgrounds'[id].reviews
                        = Append(campgrounds[id].reviews, loc[p].newId)
                   /\ \A c \in DOMAIN campgrounds \ {id} :
                         campgrounds'[c] = campgrounds[c]
                   /\ resp'[p] = [type |-> "redirect", status |-> 302,
                                  path |-> "/campgrounds", id |-> id,
                                  message |-> <<>>]]_vars

\* C9: a POST /campgrounds/{id}/reviews with a valid payload whose lookup
\* finds no Campground persists no Review, changes no Campground, and is
\* answered by the error presenter with status 500, not with a redirect.
C9_ReviewForMissingCampground ==
    [][\A p \in Slots :
         (pc[p] = "idle" /\ pc'[p] # "idle"
            /\ <<req'[p].method, req'[p].path>>
                 = <<"POST", "/campgrounds/:id/reviews">>
            /\ req'[p].details = <<>>
            /\ req'[p].id \notin DOMAIN campgrounds)
         => /\ pc'[p] = "done"
            /\ resp'[p].type = "error"
            /\ resp'[p].status = 500
            /\ hist'[p].presented = 1
            /\ hist'[p].responses = 1
            /\ \A i \in DOMAIN hist'[p].ops : hist'[p].ops[i].op # "save"
            /\ campgrounds' = campgrounds
            /\ reviews' = reviews
            /\ nextReviewId' = nextReviewId]_vars

\* A review was submitted for a campground the lookup did not find, while
\* another campground exists.
C9_Witness ==
    \E p \in Slots :
        /\ Is(p, "createReview") /\ pc[p] = "done"
        /\ req[p].details = <<>>
        /\ Len(hist[p].ops) = 1
        /\ hist[p].ops[1].n = 0
        /\ resp[p].status = 500
        /\ DOMAIN campgrounds # {}

\* The flow of a review submission has carried out its three store steps.
Attached(p) ==
    /\ Is(p, "createReview") /\ pc[p] = "done"
    /\ Len(hist[p].ops) = 3
    /\ ~hist[p].failed

\* C10: when two review submissions for the same campground were handled
\* concurrently and both have carried out their store steps, the
\* campground's review list holds both new identifiers and both Review
\* records exist.
C10_NoLostReview ==
    \A p, q \in Slots :
        (p # q /\ Attached(p) /\ Attached(q) /\ req[p].id = req[q].id)
        => LET rp == hist[p].ops[2].arg
               rq == hist[q].ops[2].arg
           IN  /\ rp # rq
               /\ {rp, rq} \subseteq reviews
               /\ {rp, rq} \subseteq Listed(req[p].id)

\* Two overlapping review submissions for one campground have both finished.
C10_Witness ==
    \E p, q \in Slots :
        p # q /\ Attached(p) /\ Attached(q) /\ req[p].id = req[q].id

TypeOK ==
    /\ app \in Apps
    /\ DOMAIN campgrounds \subseteq CampIds
    /\ reviews \subseteq ReviewIds
    /\ nextCampId \in 1..(MaxCamps + 1)
    /\ nextReviewId \in 1..(MaxReviews + 1)

====
